---- MODULE Spec2Model ----
(***************************************************************************)
(* A model of erddaplogs/logparse.py: the ErddapLogParser session (loading *)
(* Apache and Nginx logs into one request table, subsetting, the filter    *)
(* pipeline and its undo, IP enrichment through a cached external lookup,  *)
(* anonymization) and the column derivation of _parse_columns.             *)
(*                                                                         *)
(* Strings are sequences of lexemes ("/", "erddap", ".", "env", ...), so   *)
(* that substring tests and splits are computed, not assumed.  A null of a *)
(* string column is the value Null; the four-character string "None" that  *)
(* pandas produces from a missing value is the different value NoneStr.    *)
(***************************************************************************)
EXTENDS Integers, Sequences, FiniteSets, TLC

VARIABLES
    df,                       \* self.df: [cols, rows]
    unfiltered_df,            \* self.unfiltered_df, NoAttr until first set
    original_total_requests,  \* self.original_total_requests
    filter_name,              \* self.filter_name
    ip,                       \* self.ip: the cache table of the last enrichment
    ip_info_csv,              \* the cache file on disk: NoFile or its lines
    anonymized,               \* self.anonymized
    location,                 \* self.location
    last,                     \* history: the last call, its arguments, what it raised
    checkpoint,               \* history: self.df right after the last load / subset
    lookups                   \* history: the external lookups of the last get_ip_info

vars == <<df, unfiltered_df, original_total_requests, filter_name, ip,
          ip_info_csv, anonymized, location, last, checkpoint, lookups>>

----------------------------------------------------------------------------
(* Strings *)

Null == <<"<null>">>
NoneStr == <<"None">>
Absent == <<"<no column>">>
EmptyStr == <<>>

\* Lexemes that are one character long (what a regex "." can match).
SingleChars == {"/", ".", "?", "&", "=", " ", "-"}

\* Python's `phrase in page`: literal substring.
StrIn(phrase, page) ==
    \E i \in 0..(Len(page) - Len(phrase)) :
        SubSeq(page, i + 1, i + Len(phrase)) = phrase

\* One pattern lexeme against one subject lexeme, as a regular expression: an
\* unescaped "." matches any single character.
RegexSymMatch(p, c) == IF p = "." THEN c \in SingleChars ELSE p = c

\* polars str.contains(pattern): the pattern is a regular expression, searched.
StrContains(s, pattern) ==
    \E i \in 0..(Len(s) - Len(pattern)) :
        \A k \in 1..Len(pattern) : RegexSymMatch(pattern[k], s[i + k])

Lower(c) ==
    CASE c = "Google" -> "google"
      [] c = "Crawlers" -> "crawlers"
      [] c = "SEMrush" -> "semrush"
      [] c = "LLC" -> "llc"
      [] c = "University" -> "university"
      [] OTHER -> c

LowerStr(s) == [i \in 1..Len(s) |-> Lower(s[i])]

\* str.contains("(?i)" + block_org): case-insensitive search.
StrContainsNoCase(s, pattern) == StrContains(LowerStr(s), LowerStr(pattern))

\* str.split(sep): the list of pieces between the occurrences of sep.
RECURSIVE SplitFrom(_, _, _, _)
SplitFrom(s, sep, i, piece) ==
    IF i > Len(s) THEN <<piece>>
    ELSE IF s[i] = sep THEN <<piece>> \o SplitFrom(s, sep, i + 1, <<>>)
    ELSE SplitFrom(s, sep, i + 1, Append(piece, s[i]))

Split(s, sep) == SplitFrom(s, sep, 1, <<>>)

----------------------------------------------------------------------------
(* Sample log data *)

IPA == <<"10", ".", "0", ".", "0", ".", "1">>
IPB == <<"66", ".", "249", ".", "0", ".", "2">>
IPC == <<"192", ".", "168", ".", "5", ".", "10">>

UABrowser == <<"Mozilla", "/", "5.0", " ", "Firefox">>
UABot == <<"Googlebot", "/", "2.1">>

UrlData == <<"/", "erddap", "/", "tabledap", "/", "ds1", ".", "csv", "?",
             "email", "=", "me", "&", "time">>
UrlEnv == <<"/", "erddap", "/", ".", "env">>
UrlFiles == <<"/", "erddap", "/", "files", "/", "zh-CN", "/", "version">>

\* One parsed Apache entry: request_line is split on " " by the loader.
A1 == [remote_host |-> IPA, request_time |-> 1,
       request_line |-> <<<<"GET">>, UrlData, <<"HTTP/1.1">>>>,
       user_agent |-> UABrowser, final_status |-> 200]
A2 == [remote_host |-> IPB, request_time |-> 1,
       request_line |-> <<<<"GET">>, UrlEnv, <<"HTTP/1.1">>>>,
       user_agent |-> UABot, final_status |-> 404]
\* a malformed request line: fewer than two space-separated tokens
A3 == [remote_host |-> IPC, request_time |-> 2,
       request_line |-> <<<<"-">>>>,
       user_agent |-> UABrowser, final_status |-> 400]

\* What a directory and a wildcard select: a list of files, each a list of entries.
ApacheDirs == {
    <<>>,
    << <<A2, A1, A2>> >>,
    << <<A3>>, <<A1>> >> }

\* One Nginx line: matched says whether lineformat matches it; utc whether its
\* offset is the "+0000" the strptime format demands; url is the requested path.
N1 == [matched |-> TRUE, utc |-> TRUE, ipaddress |-> IPA, dateandtime |-> 2,
       url |-> UrlFiles, useragent |-> UABrowser, statuscode |-> 200]
N3 == [matched |-> FALSE, utc |-> TRUE, ipaddress |-> IPC, dateandtime |-> 1,
       url |-> EmptyStr, useragent |-> UABrowser, statuscode |-> 200]
N4 == [matched |-> TRUE, utc |-> FALSE, ipaddress |-> IPC, dateandtime |-> 3,
       url |-> UrlData, useragent |-> UABrowser, statuscode |-> 200]

NginxDirs == {
    <<>>,
    << <<N1, N3, N1>> >>,
    << <<N1>>, <<N4>> >> }

----------------------------------------------------------------------------
(* DataFrames: [cols, rows].  cols is "none" (pl.DataFrame()), "base" (the   *)
(* seven log columns) or "geo" (the log columns and the joined cache         *)
(* columns).  A row carries Absent in the columns its frame does not have.   *)

EmptyDF == [cols |-> "none", rows |-> <<>>]

Row(i, t, u, a, s) ==
    [ip |-> i, datetime |-> t, url |-> u, user_agent |-> a, status_code |-> s,
     country |-> Absent, org |-> Absent, isp |-> Absent]

Range(s) == {s[i] : i \in 1..Len(s)}

RECURSIVE Flatten(_)
Flatten(ss) == IF ss = <<>> THEN <<>> ELSE Head(ss) \o Flatten(Tail(ss))

\* DataFrame.sort("datetime"): maintain_order is False, so rows with equal
\* timestamps come out in an order the library does not promise.  SortIdx
\* picks, among the rows left, any one with the least timestamp.
RECURSIVE SortIdx(_, _)
SortIdx(s, I) ==
    IF I = {} THEN {<<>>}
    ELSE UNION {{<<s[i]>> \o t : t \in SortIdx(s, I \ {i})} :
                i \in {i \in I : \A j \in I : s[i].datetime <= s[j].datetime}}

Sort(s) == SortIdx(s, 1..Len(s))

IsSortedByDatetime(s) ==
    \A i, j \in 1..Len(s) : i < j => s[i].datetime <= s[j].datetime

RECURSIVE Arrangements(_)
Arrangements(S) ==
    IF S = {} THEN {<<>>}
    ELSE UNION {{<<x>> \o t : t \in Arrangements(S \ {x})} : x \in S}

\* A plausible slip: no deduplication at all.
UniqueKeepAll(s) == {s}

\* DataFrame.unique(): one row per distinct row; maintain_order is False, so
\* the rows come out in an order the library does not promise.
Unique(s) == Arrangements(Range(s))

\* df.sort("datetime").unique(): unique() keeps nothing of the order of its
\* input, so its outcomes are those of unique() on the unsorted rows.
SortUnique(s) == Unique(s)

\* pl.concat([a, b], how="vertical"): a frame of width 0 takes the other's
\* columns; otherwise the widths must agree.
Concat(a, b) ==
    IF a.cols = "none" THEN [exc |-> "none", df |-> b]
    ELSE IF a.cols # b.cols THEN [exc |-> "ShapeError", df |-> a]
    ELSE [exc |-> "none", df |-> [cols |-> a.cols, rows |-> a.rows \o b.rows]]

\* DataFrame.gather_every(n): rows 0, n, 2n, ...
GatherEvery(s, n) ==
    LET idx == {i \in 1..Len(s) : (i - 1) % n = 0}
    IN  [k \in 1..Cardinality(idx) |-> s[(k - 1) * n + 1]]

Filter(d, Keep(_)) == [d EXCEPT !.rows = SelectSeq(d.rows, Keep)]

----------------------------------------------------------------------------
(* The loaders *)

ApacheUrl(entry) ==
    IF Len(entry.request_line) >= 2 THEN entry.request_line[2] ELSE EmptyStr

ApacheRow(entry) ==
    Row(entry.remote_host, entry.request_time, ApacheUrl(entry),
        entry.user_agent, entry.final_status)

_load_apache_logs(apache_logs) ==
    IF Len(apache_logs) = 0 THEN [exc |-> "ValueError", df |-> EmptyDF]
    ELSE LET entries == Flatten(apache_logs)
         IN  [exc |-> "none",
              df |-> [cols |-> "base",
                      rows |-> [i \in 1..Len(entries) |-> ApacheRow(entries[i])]]]

\* The url group is ".+" up to the protocol: it keeps the space before it.
NginxRow(line) ==
    Row(line.ipaddress, line.dateandtime, line.url \o <<" ">>,
        line.useragent, line.statuscode)

IsMatched(line) == line.matched

\* Returns the matched rows before the final sort, which the caller applies.
_load_nginx_logs(csvs) ==
    IF Len(csvs) = 0 THEN [exc |-> "ValueError", df |-> EmptyDF]
    ELSE LET data == SelectSeq(Flatten(csvs), IsMatched)
         IN  IF \E i \in 1..Len(data) : ~data[i].utc
             THEN [exc |-> "ComputeError", df |-> EmptyDF]
             ELSE [exc |-> "none",
                   df |-> [cols |-> "base",
                           rows |-> [i \in 1..Len(data) |-> NginxRow(data[i])]]]

----------------------------------------------------------------------------
(* ErddapLogParser *)

NoAttr == [cols |-> "<no attribute>", rows |-> <<>>]
NoArgs == <<>>
verbose == FALSE

\* The record of the last call; filtered tells whether, when the call was
\* made, filters had removed rows from the table since its snapshot was taken.
Call(op, args, exc, note) ==
    [op |-> op, args |-> args, exc |-> exc, note |-> note,
     filtered |-> unfiltered_df # NoAttr /\ df # unfiltered_df]

\* A call that raises before it assigns anything.
Raise(op, args, exc) ==
    /\ last' = Call(op, args, exc, "")
    /\ UNCHANGED <<df, unfiltered_df, original_total_requests, filter_name, ip,
                   ip_info_csv, anonymized, location, checkpoint, lookups>>

\* A plausible slip: the count is reset but the snapshot is not taken again.
UpdateCountOnly(d) ==
    /\ original_total_requests' = Len(d.rows)
    /\ unfiltered_df' = unfiltered_df

_update_original_total_requests(d) ==
    /\ original_total_requests' = Len(d.rows)
    /\ unfiltered_df' = d

\* The tail shared by the two load methods: concat, sort, unique, checkpoint.
Merge(op, args, batch) ==
    LET c == Concat(df, batch)
    IN  IF c.exc # "none" THEN Raise(op, args, c.exc)
        ELSE \E u \in SortUnique(c.df.rows) :
               /\ df' = [cols |-> c.df.cols, rows |-> u]
               /\ _update_original_total_requests(df')
               /\ checkpoint' = df'
               /\ last' = Call(op, args, "none",
                               IF Range(df.rows) \cap Range(batch.rows) # {}
                               THEN "overlap"
                               ELSE IF Cardinality(Range(batch.rows)) < Len(batch.rows)
                               THEN "duplicates" ELSE "fresh")
               /\ UNCHANGED <<filter_name, ip, ip_info_csv, anonymized, location,
                              lookups>>

load_apache_logs_from(apache_logs) ==
    LET r == _load_apache_logs(apache_logs)
    IN  IF r.exc # "none" THEN Raise("load_apache_logs", <<apache_logs>>, r.exc)
        ELSE Merge("load_apache_logs", <<apache_logs>>, r.df)

load_apache_logs == \E apache_logs \in ApacheDirs : load_apache_logs_from(apache_logs)

load_nginx_logs_from(csvs) ==
    LET r == _load_nginx_logs(csvs)
    IN  IF r.exc # "none" THEN Raise("load_nginx_logs", <<csvs>>, r.exc)
        ELSE \E df_nginx \in Sort(r.df.rows) :
               Merge("load_nginx_logs", <<csvs>>, [cols |-> "base", rows |-> df_nginx])

load_nginx_logs == \E csvs \in NginxDirs : load_nginx_logs_from(csvs)

MaxSubsetRows == 3

subset_df ==
    \E rows \in 0..MaxSubsetRows :
        IF rows = 0 THEN Raise("subset_df", NoArgs, "ZeroDivisionError")
        ELSE LET stride == Len(df.rows) \div rows
             IN  IF stride = 0 THEN Raise("subset_df", NoArgs, "ComputeError")
                 ELSE /\ df' = [df EXCEPT !.rows = GatherEvery(df.rows, stride)]
                      /\ _update_original_total_requests(df')
                      /\ checkpoint' = df'
                      /\ last' = Call("subset_df", NoArgs, "none", "")
                      /\ UNCHANGED <<filter_name, ip, ip_info_csv, anonymized,
                                     location, lookups>>

----------------------------------------------------------------------------
(* The filters.  Each body computes what the undecorated method does to    *)
(* (self.df, self.filter_name) and what it raises; magic is the decorator. *)

Done(d, name) == [exc |-> "none", df |-> d, filter_name |-> name]
Failed(exc, d, name) == [exc |-> exc, df |-> d, filter_name |-> name]

\* def magic(self): the wrapper takes no argument but self.
magic_accepts(args) == args = NoArgs

\* _print_filter_stats: the wrapper every filter_* method is replaced by.
magic(op, args, r) ==
    IF ~magic_accepts(args) THEN Raise(op, args, "TypeError")
    ELSE /\ df' = r.df
         /\ filter_name' = r.filter_name
         /\ last' = Call(op, args,
                         IF r.exc # "none" THEN r.exc
                         ELSE IF verbose /\ original_total_requests = 0
                              THEN "ZeroDivisionError" ELSE "none",
                         "")
         /\ UNCHANGED <<unfiltered_df, original_total_requests, ip, ip_info_csv,
                        anonymized, location, checkpoint, lookups>>

HasErddap(row) == StrContains(row.url, <<"erddap">>)

\* filter_name is assigned before the filter is applied.
filter_non_erddap_body ==
    IF df.cols = "none" THEN Failed("ColumnNotFoundError", df, "non erddap")
    ELSE Done(Filter(df, HasErddap), "non erddap")

filter_non_erddap == magic("filter_non_erddap", NoArgs, filter_non_erddap_body)

DefaultOrganisations == {<<"Google">>, <<"Crawlers">>, <<"SEMrush">>}

FillNull(v, w) == IF v = Null THEN w ELSE v

filter_organisations_body(organisations) ==
    IF df.cols # "geo" THEN Failed("ValueError", df, filter_name)
    ELSE LET filled == [i \in 1..Len(df.rows) |->
                          [df.rows[i] EXCEPT !.org = FillNull(@, <<"unknown">>),
                                             !.isp = FillNull(@, <<"unknown">>)]]
             Keep(row) == \A block_org \in organisations :
                              /\ ~StrContainsNoCase(row.org, block_org)
                              /\ ~StrContainsNoCase(row.isp, block_org)
         IN  Done([df EXCEPT !.rows = SelectSeq(filled, Keep)], "organisations")

OrganisationArgs == {NoArgs, <<{<<"University">>}>>}

filter_organisations ==
    \E args \in OrganisationArgs :
        magic("filter_organisations", args,
              filter_organisations_body(IF args = NoArgs THEN DefaultOrganisations
                                        ELSE args[1]))

BotFamilies == {"Googlebot", "bingbot"}

\* user_agents.parse(ua).is_bot
is_bot(ua) == \E i \in 1..Len(ua) : ua[i] \in BotFamilies

NotBot(row) == ~is_bot(row.user_agent)

filter_user_agents_body ==
    IF df.cols = "none" THEN Failed("ColumnNotFoundError", df, filter_name)
    ELSE Done(Filter(df, NotBot), "user agents")

filter_user_agents == magic("filter_user_agents", NoArgs, filter_user_agents_body)

DefaultLocales == {<<"zh-CN">>, <<"zh-TW">>, <<"ZH">>}

filter_locales_body(locales) ==
    IF df.cols = "none" /\ locales # {} THEN Failed("ColumnNotFoundError", df, filter_name)
    ELSE LET Keep(row) == \A locale \in locales : ~StrContains(row.url, locale)
         IN  Done(Filter(df, Keep), "locales")

LocaleArgs == {NoArgs, <<{<<"version">>}>>}

filter_locales ==
    \E args \in LocaleArgs :
        magic("filter_locales", args,
              filter_locales_body(IF args = NoArgs THEN DefaultLocales ELSE args[1]))

DefaultSpamStrings == {
    <<".", "env">>, <<"env", ".">>, <<".", "php">>, <<".", "git">>,
    <<"robots", ".", "txt">>, <<"phpinfo">>, <<"/", "config">>, <<"aws">>,
    <<".", "xml">>}

\* bad_pages: the distinct urls of the table that hold one of the phrases.
BadPages(d, spam_strings) ==
    {page \in {d.rows[i].url : i \in 1..Len(d.rows)} :
        \E phrase \in spam_strings : StrIn(phrase, page)}

filter_spam_body(spam_strings) ==
    IF df.cols = "none" THEN Failed("ColumnNotFoundError", df, filter_name)
    ELSE LET bad_pages == BadPages(df, spam_strings)
             Keep(row) == row.url \notin bad_pages
         IN  Done(Filter(df, Keep), "spam")

SpamArgs == {NoArgs, <<{<<".", "env">>}>>, <<{<<"files">>, <<"tabledap">>}>>}

filter_spam_with(args) ==
    magic("filter_spam", args,
          filter_spam_body(IF args = NoArgs THEN DefaultSpamStrings ELSE args[1]))

filter_spam == \E args \in SpamArgs : filter_spam_with(args)

NoFiles(row) == ~StrContains(row.url, <<"/", "files">>)

filter_files_body ==
    IF df.cols = "none" THEN Failed("ColumnNotFoundError", df, filter_name)
    ELSE Done(Filter(df, NoFiles), "files")

filter_files == magic("filter_files", NoArgs, filter_files_body)

DefaultStrings == {
    <<"/", "version">>, <<"favicon", ".", "ico">>, <<".", "js">>, <<".", "css">>,
    <<"/", "erddap", "/", "images">>}

filter_common_strings_body(strings) ==
    IF df.cols = "none" /\ strings # {} THEN Failed("ColumnNotFoundError", df, filter_name)
    ELSE LET Keep(row) == \A string \in strings : ~StrContains(row.url, string)
         IN  Done(Filter(df, Keep), "common strings")

CommonStringArgs == {NoArgs, <<{<<".", "csv">>}>>}

filter_common_strings ==
    \E args \in CommonStringArgs :
        magic("filter_common_strings", args,
              filter_common_strings_body(IF args = NoArgs THEN DefaultStrings
                                         ELSE args[1]))

\* A plausible slip: undo that keeps the filtered table.
UndoTargetCurrent(current, snapshot) == current

\* self.df = self.unfiltered_df
UndoTarget(current, snapshot) == snapshot

undo_filter ==
    IF unfiltered_df = NoAttr THEN Raise("undo_filter", NoArgs, "AttributeError")
    ELSE /\ df' = UndoTarget(df, unfiltered_df)
         /\ _update_original_total_requests(df')
         /\ last' = Call("undo_filter", NoArgs, "none",
                         IF df = unfiltered_df THEN "same" ELSE "restored")
         /\ UNCHANGED <<filter_name, ip, ip_info_csv, anonymized, location,
                        checkpoint, lookups>>

----------------------------------------------------------------------------
(* IP enrichment.  The cache table df_ip is a sequence of entries; the     *)
(* lookup service answers each request with one of ResponseKinds.          *)

Entry(q, st, c, o, i) == [query |-> q, status |-> st, country |-> c, org |-> o, isp |-> i]

\* The value of ip_info_csv while Path(ip_info_csv).exists() is false.
NoFile == <<Entry(<<"<no file>">>, EmptyStr, EmptyStr, EmptyStr, EmptyStr)>>

\* The one-row table _get_ip_info starts from when there is no cache file.
BlankCache == <<Entry(EmptyStr, EmptyStr, EmptyStr, EmptyStr, EmptyStr)>>

\* What ip-api.com knows of the sample addresses.
GeoOf(addr) ==
    CASE addr = IPA -> Entry(addr, <<"success">>, <<"SE">>, <<"University">>, <<"SUNET">>)
      [] addr = IPB -> Entry(addr, <<"success">>, <<"US">>, <<"Google", "LLC">>,
                             <<"Google", "LLC">>)
      [] OTHER -> Entry(addr, <<"success">>, <<"DE">>, EmptyStr, <<"Telekom">>)

\* "success": the full payload; "fail": status fail and a message, no geo field;
\* "mismatch": a payload pl.concat refuses (SchemaError or ShapeError);
\* "ratelimit": HTTP 429.
ResponseKinds == {"success", "fail", "mismatch", "ratelimit"}

Payload(addr, kind) ==
    IF kind = "fail" THEN Entry(addr, <<"fail">>, Null, Null, Null) ELSE GeoOf(addr)

\* write_csv writes a null as an empty field; read_csv reads an empty field as null.
CsvField(v) == IF v = Null THEN EmptyStr ELSE v
CsvValue(f) == IF f = EmptyStr THEN Null ELSE f

write_csv(df_ip) ==
    [i \in 1..Len(df_ip) |->
        Entry(CsvField(df_ip[i].query), CsvField(df_ip[i].status),
              CsvField(df_ip[i].country), CsvField(df_ip[i].org), CsvField(df_ip[i].isp))]

read_csv(file) ==
    [i \in 1..Len(file) |->
        Entry(CsvValue(file[i].query), CsvValue(file[i].status),
              CsvValue(file[i].country), CsvValue(file[i].org), CsvValue(file[i].isp))]

LoadCache(file) == IF file = NoFile THEN BlankCache ELSE read_csv(file)

Queries(df_ip) == {df_ip[i].query : i \in 1..Len(df_ip)} \ {Null}

\* The distinct values of s in the order they are first seen.
RECURSIVE FirstSeen(_, _)
FirstSeen(s, seen) ==
    IF s = <<>> THEN <<>>
    ELSE IF Head(s) \in seen THEN FirstSeen(Tail(s), seen)
    ELSE <<Head(s)>> \o FirstSeen(Tail(s), seen \cup {Head(s)})

CountOf(s, x) == Cardinality({i \in 1..Len(s) : s[i] = x})

RECURSIVE InsertByCount(_, _, _)
InsertByCount(sorted, x, col) ==
    IF sorted = <<>> THEN <<x>>
    ELSE IF CountOf(col, x) > CountOf(col, Head(sorted)) THEN <<x>> \o sorted
    ELSE <<Head(sorted)>> \o InsertByCount(Tail(sorted), x, col)

RECURSIVE StableByCount(_, _)
StableByCount(keys, col) ==
    IF keys = <<>> THEN <<>>
    ELSE InsertByCount(StableByCount(SubSeq(keys, 1, Len(keys) - 1), col),
                       keys[Len(keys)], col)

\* Counter(df["ip"]).most_common(): by count, descending; ties in first-seen order.
most_common(col) == StableByCount(FirstSeen(col, {}), col)

IpColumn(d) == [i \in 1..Len(d.rows) |-> d.rows[i].ip]

\* A plausible slip: the budget test off by one.
BudgetSpentLate(fetched_ips, num_new_ips) == fetched_ips > num_new_ips

\* if fetched_ips >= num_new_ips: break
BudgetSpent(fetched_ips, num_new_ips) == fetched_ips >= num_new_ips

\* A plausible slip: going on to the next address after a 429.
AfterRateLimitContinue(rest) == rest

\* if resp_raw.status_code == 429: break -- nothing of the list is left to visit
AfterRateLimit(rest) == <<>>

\* A plausible slip: the row of a refused payload is appended all the same.
AfterMergeErrorAppend(df_ip, addr) == Append(df_ip, GeoOf(addr))

\* except (SchemaError, ShapeError): the table is left as it was
AfterMergeError(df_ip, addr) == df_ip

\* The loop over ip_counts; resp gives the answer of the service per address.
\* Returns the table and the requests issued, in order.
RECURSIVE FetchLoop(_, _, _, _, _)
FetchLoop(ip_counts, df_ip, fetched_ips, num_new_ips, resp) ==
    IF ip_counts = <<>> THEN [df_ip |-> df_ip, requests |-> <<>>]
    ELSE LET addr == Head(ip_counts)
             rest == Tail(ip_counts)
         IN  IF addr \in Queries(df_ip)
             THEN FetchLoop(rest, df_ip, fetched_ips, num_new_ips, resp)
             ELSE IF BudgetSpent(fetched_ips, num_new_ips)
             THEN [df_ip |-> df_ip, requests |-> <<>>]
             ELSE LET kind == resp[addr]
                      merged == IF kind = "ratelimit" THEN df_ip
                                ELSE IF kind = "mismatch" THEN AfterMergeError(df_ip, addr)
                                ELSE Append(df_ip, Payload(addr, kind))
                      after == FetchLoop(IF kind = "ratelimit" THEN AfterRateLimit(rest)
                                         ELSE rest,
                                         merged, fetched_ips + 1, num_new_ips, resp)
                  IN  [df_ip |-> after.df_ip,
                       requests |-> <<[ip |-> addr, kind |-> kind]>> \o after.requests]

\* Returns the table (which is also what is written to the file) and the requests.
_get_ip_info(d, file, download_new, num_new_ips, resp) ==
    LET ip_counts == most_common(IpColumn(d))
        df_ip == LoadCache(file)
    IN  IF download_new THEN FetchLoop(ip_counts, df_ip, 0, num_new_ips, resp)
        ELSE [df_ip |-> df_ip, requests |-> <<>>]

\* df.join(df_ip, left_on="ip", right_on="query", how="left"): one row per
\* matching entry, in the order of the entries; one row of nulls if none.
JoinRow(row, df_ip) ==
    LET hits == SelectSeq(df_ip, LAMBDA e : e.query # Null /\ e.query = row.ip)
    IN  IF hits = <<>>
        THEN <<[row EXCEPT !.country = Null, !.org = Null, !.isp = Null]>>
        ELSE [k \in 1..Len(hits) |->
                 [row EXCEPT !.country = hits[k].country, !.org = hits[k].org,
                             !.isp = hits[k].isp]]

Join(rows, df_ip) == Flatten([i \in 1..Len(rows) |-> JoinRow(rows[i], df_ip)])

\* A plausible slip: no guard, the enrichment runs again.
HasGeoNever(d) == FALSE

\* if "country" in self.df.columns
HasGeo(d) == d.cols = "geo"

MaxNumIps == 2

\* What the service may answer to each address of the table; nothing is asked
\* of it when download_new is false.
Responses(d, download_new) ==
    IF download_new THEN [Range(IpColumn(d)) -> ResponseKinds]
    ELSE {[addr \in Range(IpColumn(d)) |-> "ratelimit"]}

get_ip_info_with(download_new, num_ips) ==
    LET args == NoArgs
    IN  IF HasGeo(df)
        THEN /\ last' = Call("get_ip_info", args, "none", "guard")
             /\ lookups' = <<>>
             /\ UNCHANGED <<df, unfiltered_df, original_total_requests, filter_name,
                            ip, ip_info_csv, anonymized, location, checkpoint>>
        ELSE IF df.cols = "none"
        THEN /\ last' = Call("get_ip_info", args, "ColumnNotFoundError", "")
             /\ lookups' = <<>>
             /\ UNCHANGED <<df, unfiltered_df, original_total_requests, filter_name,
                            ip, ip_info_csv, anonymized, location, checkpoint>>
        ELSE \E resp \in Responses(df, download_new) :
               LET r == _get_ip_info(df, ip_info_csv, download_new, num_ips, resp)
               IN  /\ ip_info_csv' = write_csv(r.df_ip)
                   /\ ip' = r.df_ip
                   /\ lookups' = r.requests
                   /\ \E joined \in Sort(Join(df.rows, r.df_ip)) :
                          df' = [cols |-> "geo", rows |-> joined]
                   /\ last' = Call("get_ip_info", <<num_ips>>, "none", "run")
                   /\ UNCHANGED <<unfiltered_df, original_total_requests, filter_name,
                                  anonymized, location, checkpoint>>

get_ip_info ==
    \E download_new \in BOOLEAN, num_ips \in 0..MaxNumIps :
        get_ip_info_with(download_new, num_ips)

----------------------------------------------------------------------------
(* Anonymization *)

\* user_agents.parse(ua): the families the classifier reports.
BrowserFamily(ua) == IF is_bot(ua) THEN ua[1] ELSE ua[Len(ua)]
DeviceFamily(ua) == IF is_bot(ua) THEN "Spider" ELSE "Other"
OSFamily(ua) == "Other"

\* The position of the first "&" at or after position i, 0 if there is none.
RECURSIVE NextAmp(_, _)
NextAmp(url, i) ==
    IF i > Len(url) THEN 0 ELSE IF url[i] = "&" THEN i ELSE NextAmp(url, i + 1)

\* re.sub("email=.*?&", "", url): every "email=" up to the nearest "&" goes.
RECURSIVE StripEmail(_)
StripEmail(url) ==
    IF Len(url) < 2 THEN url
    ELSE IF url[1] = "email" /\ url[2] = "=" /\ NextAmp(url, 3) # 0
    THEN StripEmail(SubSeq(url, NextAmp(url, 3) + 1, Len(url)))
    ELSE <<url[1]>> \o StripEmail(Tail(url))

\* df.group_by([countryCode, regionName, city]).len()
aggregate_location(d) ==
    {[country |-> c, len |-> Cardinality({i \in 1..Len(d.rows) : d.rows[i].country = c})] :
        c \in {d.rows[i].country : i \in 1..Len(d.rows)}}

\* A plausible slip: an index that is not taken from the row of the address.
RowIndexOfLength(unique_df, addr) == Len(unique_df) - 1

\* unique_df.row(by_predicate=(pl.col("ip") == ip))["index"]: the row index of
\* the one row of unique_df that holds the address.
RowIndexOf(unique_df, addr) ==
    CHOOSE index \in 0..(Len(unique_df) - 1) : unique_df[index + 1] = addr

\* The table after anonymize_user_agent, anonymize_ip and anonymize_query;
\* unique_df is the outcome of Series.unique() on the ip column.
Anonymize(d, unique_df) ==
    [i \in 1..Len(d.rows) |->
        [ip |-> RowIndexOf(unique_df, d.rows[i].ip),
         datetime |-> d.rows[i].datetime,
         status_code |-> d.rows[i].status_code,
         url |-> StripEmail(d.rows[i].url),
         BrowserFamily |-> BrowserFamily(d.rows[i].user_agent),
         DeviceFamily |-> DeviceFamily(d.rows[i].user_agent),
         OS |-> OSFamily(d.rows[i].user_agent)]]

anonymize_requests ==
    IF df.cols # "geo" THEN Raise("anonymize_requests", NoArgs, "ColumnNotFoundError")
    ELSE \E unique_df \in Unique(IpColumn(df)) :
           /\ location' = aggregate_location(df)
           /\ anonymized' = Anonymize(df, unique_df)
           /\ last' = Call("anonymize_requests", NoArgs, "none", "")
           /\ UNCHANGED <<df, unfiltered_df, original_total_requests, filter_name, ip,
                          ip_info_csv, checkpoint, lookups>>

----------------------------------------------------------------------------
(* _parse_columns.  The pandas steps are modelled on values: PyNone is the *)
(* missing value of a pandas object column.                                *)

PyNone == <<"<None>">>

\* Series.astype(str) on an object column: str(None) is the string "None".
astype_str(v) == IF v = PyNone THEN NoneStr ELSE v

\* A numpy object array handed to polars: None becomes null, a str stays.
to_polars(v) == IF v = PyNone THEN Null ELSE v

IsNotSpace(c) == c # " "

\* .str.replace(" ", "")
StripSpaces(str) == SelectSeq(str, IsNotSpace)

Max(S) == IF S = {} THEN 0 ELSE CHOOSE m \in S : \A n \in S : n <= m

\* The number of columns of .str.split(sep, expand=True): that of the row
\* with the most pieces (none for an empty series).
Width(splits) == Max({Len(splits[i]) : i \in 1..Len(splits)})

\* Column k (from 0) of the expanded frame, in one row: None past its pieces.
Piece(pieces, k) == IF k < Len(pieces) THEN pieces[k + 1] ELSE PyNone

Protocols == {<<"tabledap">>, <<"griddap">>, <<"files">>, <<"info">>}

\* url_parts["protocol"] = None, then set where url_parts[2] is a keyword
Protocol(url_parts) ==
    IF Piece(url_parts, 2) \in Protocols THEN Piece(url_parts, 2) ELSE PyNone

\* pl.when(erddap_request_type.is_null()).then(None).otherwise(dataset_id)
DatasetIdWhen(erddap_request_type, dataset_id) ==
    IF erddap_request_type = Null THEN Null ELSE dataset_id

DerivedRow(row) ==
    LET df_parts == Split(StripSpaces(row.url), "?")
        name_parts == Split(Piece(df_parts, 0), ".")
        base_url == astype_str(Piece(name_parts, 0))
        url_parts == Split(base_url, "/")
        erddap_request_type == to_polars(astype_str(Protocol(url_parts)))
        ua_parts == Split(Piece(Split(row.user_agent, " "), 0), "/")
        ip_grid == Split(row.ip, ".")
    IN  [ip |-> row.ip, datetime |-> row.datetime, url |-> row.url,
         user_agent |-> row.user_agent, status_code |-> row.status_code,
         country |-> FillNull(row.country, <<"unknown">>),
         org |-> row.org, isp |-> row.isp,
         base_url |-> base_url,
         erddap_request_type |-> erddap_request_type,
         dataset_id |-> DatasetIdWhen(erddap_request_type,
                                      to_polars(astype_str(Piece(url_parts, 3)))),
         request_kwargs |-> to_polars(astype_str(Piece(df_parts, 1))),
         file_type |-> to_polars(astype_str(Piece(name_parts, 1))),
         user_agent_base |-> to_polars(Piece(ua_parts, 0)),
         ip_group |-> Piece(ip_grid, 0) \o <<".">> \o Piece(ip_grid, 1),
         ip_subnet |-> Piece(ip_grid, 0) \o <<".">> \o Piece(ip_grid, 1)
                         \o <<".">> \o Piece(ip_grid, 2)]

\* The widths of the expanded frames decide whether the column labels the
\* function reads exist; a missing label is a KeyError.
_parse_columns(d) ==
    LET n == Len(d.rows)
        df_parts == [i \in 1..n |-> Split(StripSpaces(d.rows[i].url), "?")]
        name_parts == [i \in 1..n |-> Split(Piece(df_parts[i], 0), ".")]
        url_parts == [i \in 1..n |-> Split(astype_str(Piece(name_parts[i], 0)), "/")]
        ip_grid == [i \in 1..n |-> Split(d.rows[i].ip, ".")]
    IN  IF d.cols \notin {"geo", "derived"} THEN [exc |-> "ColumnNotFoundError", df |-> d]
        ELSE IF Width(df_parts) < 1 \/ Width(url_parts) < 4 \/ Width(df_parts) < 2
                \/ Width(name_parts) < 2 \/ Width(ip_grid) < 3
        THEN [exc |-> "KeyError", df |-> d]
        ELSE [exc |-> "none",
              df |-> [cols |-> "derived", rows |-> [i \in 1..n |-> DerivedRow(d.rows[i])]]]

\* self.df_xml is empty as constructed (parse_datasets_xml is not modelled), so
\* the join with the dataset types is not taken.
parse_columns ==
    LET r == _parse_columns(df)
    IN  IF r.exc # "none" THEN Raise("parse_columns", NoArgs, r.exc)
        ELSE \E sorted \in Sort(r.df.rows) :
               /\ df' = [r.df EXCEPT !.rows = sorted]
               /\ last' = Call("parse_columns", NoArgs, "none", "")
               /\ UNCHANGED <<unfiltered_df, original_total_requests, filter_name, ip,
                              ip_info_csv, anonymized, location, checkpoint, lookups>>

----------------------------------------------------------------------------
Init ==
    /\ df = EmptyDF
    /\ unfiltered_df = NoAttr
    /\ original_total_requests = 0
    /\ filter_name = "None"
    /\ ip = <<>>
    /\ ip_info_csv = NoFile
    /\ anonymized = <<>>
    /\ location = {}
    /\ last = Call("__init__", NoArgs, "none", "")
    /\ checkpoint = EmptyDF
    /\ lookups = <<>>

Next ==
    \/ load_apache_logs
    \/ load_nginx_logs
    \/ subset_df
    \/ filter_non_erddap
    \/ filter_organisations
    \/ filter_user_agents
    \/ filter_locales
    \/ filter_spam
    \/ filter_files
    \/ filter_common_strings
    \/ undo_filter

Spec == Init /\ [][Next]_vars

----------------------------------------------------------------------------
(* The enrichment session: a parser that has loaded its logs, and a cache  *)
(* file that is absent or was written by an earlier run.                   *)

LoadedTables == {
    <<ApacheRow(A1), ApacheRow(A2), NginxRow(N1), ApacheRow(A3)>> }

EarlierCacheFiles == {NoFile, write_csv(Append(BlankCache, GeoOf(IPA)))}

InitEnrich ==
    /\ \E rows \in LoadedTables : df = [cols |-> "base", rows |-> rows]
    /\ unfiltered_df = df
    /\ original_total_requests = Len(df.rows)
    /\ filter_name = "None"
    /\ ip = <<>>
    /\ ip_info_csv \in EarlierCacheFiles
    /\ anonymized = <<>>
    /\ location = {}
    /\ last = Call("load_apache_logs", <<>>, "none", "fresh")
    /\ checkpoint = df
    /\ lookups = <<>>

NextEnrich ==
    \/ get_ip_info
    \/ filter_organisations
    \/ undo_filter

SpecEnrich == InitEnrich /\ [][NextEnrich]_vars

----------------------------------------------------------------------------
(* Claims about the load / filter / undo session (Spec) *)

Loads == {"load_apache_logs", "load_nginx_logs"}

Loaded == last.op \in Loads /\ last.exc = "none"

NoDuplicateRows(rows) == \A i, j \in 1..Len(rows) : i # j => rows[i] # rows[j]

\* C1: after any filters that follow a checkpoint (a load or a subset), an
\* undo_filter that completes leaves self.df equal, row for row, to the table
\* as it was right after that checkpoint.
C1_UndoRestoresCheckpoint ==
    (last.op = "undo_filter" /\ last.exc = "none") => df = checkpoint

\* An undo that brought back rows the filters had removed.
C1_Witness ==
    /\ last.op = "undo_filter"
    /\ last.note = "restored"
    /\ Len(df.rows) >= 2

\* C5: every load leaves a table without two equal rows, holding exactly the
\* rows of the table before it and the rows of the batch: loading a batch
\* whose rows are all present changes no record, and a record that is in
\* both is kept once.  (A step that ends in a completed load is a load of
\* the files last.args names.)
C5_LoadDeduplicates ==
    [][(last'.op \in Loads /\ last'.exc = "none") =>
          /\ NoDuplicateRows(df'.rows)
          /\ Range(df'.rows) =
               Range(df.rows) \cup
               Range(IF last'.op = "load_apache_logs"
                     THEN _load_apache_logs(last'.args[1]).df.rows
                     ELSE _load_nginx_logs(last'.args[1]).df.rows)
      ]_vars

\* A load into a table that already held a row of the batch, and that added
\* a row as well.
C5_Witness == Loaded /\ last.note = "overlap" /\ Len(df.rows) >= 3

\* C8: filter_spam called with spam strings of the caller's, on a table that
\* has a row whose url holds one of them and a row whose url holds none,
\* completes, removes the rows whose url holds one of the strings and keeps
\* every other row.
C8_SpamFilterSuppliedStrings ==
    [][\A args \in SpamArgs \ {NoArgs} :
          LET Clean(row) == \A phrase \in args[1] : ~StrIn(phrase, row.url)
          IN  (/\ filter_spam_with(args)
               /\ \E i, j \in 1..Len(df.rows) : Clean(df.rows[i]) /\ ~Clean(df.rows[j]))
              => /\ last'.exc = "none"
                 /\ df'.rows = SelectSeq(df.rows, Clean)
      ]_vars

\* C9: after every load the table is sorted ascending by datetime.
C9_SortedAfterLoad == Loaded => IsSortedByDatetime(df.rows)

\* The names of the filter methods.
FilterOps == {"filter_non_erddap", "filter_organisations", "filter_user_agents",
              "filter_locales", "filter_spam", "filter_files",
              "filter_common_strings"}

\* The rows a completed load read from the files its argument names.
BatchOf(call) ==
    Range(IF call.op = "load_apache_logs"
          THEN _load_apache_logs(call.args[1]).df.rows
          ELSE _load_nginx_logs(call.args[1]).df.rows)

\* C11: every completed load and every completed subset_df establishes a
\* new checkpoint: right after it original_total_requests is the row count
\* of self.df and the snapshot unfiltered_df equals self.df; for a load,
\* whether or not filters were applied before it, the snapshot holds the
\* rows of the table as it was (the filtered one) and those of the batch;
\* and a filter call changes neither original_total_requests nor the
\* snapshot.
C11_LoadAndSubsetCheckpoint ==
    [][/\ (last'.op \in Loads \cup {"subset_df"} /\ last'.exc = "none") =>
            /\ original_total_requests' = Len(df'.rows)
            /\ unfiltered_df' = df'
       /\ (last'.op \in Loads /\ last'.exc = "none") =>
            Range(unfiltered_df'.rows) = Range(df.rows) \cup BatchOf(last')
       /\ last'.op \in FilterOps =>
            /\ original_total_requests' = original_total_requests
            /\ unfiltered_df' = unfiltered_df
      ]_vars

\* A load made while filters had removed rows since the last snapshot: the
\* new snapshot has the batch's rows but not all the rows of the old one.
C11_Witness ==
    /\ Loaded
    /\ last.filtered
    /\ Len(df.rows) >= 2
    /\ unfiltered_df = df
    /\ original_total_requests = Len(df.rows)
    /\ filter_name # "None"

----------------------------------------------------------------------------
(* Claims about the enrichment run (SpecEnrich) *)

\* A step that ends in a completed run of _get_ip_info is that run: it starts
\* from the table and the cache file of the state before, with the budget
\* last.args names.
RunStep == last'.op = "get_ip_info" /\ last'.note = "run"

Ran == last.op = "get_ip_info" /\ last.note = "run"

LookedUp(reqs) == {reqs[i].ip : i \in 1..Len(reqs)}

KindsOf(reqs) == {reqs[i].kind : i \in 1..Len(reqs)}

TableIps(d) == Range(IpColumn(d))

IsMerged(req) == req.kind \in {"success", "fail"}

\* The entries a list of requests adds to the table: those of the payloads
\* that merge, in the order of the requests.
EntriesOf(reqs) ==
    LET merged == SelectSeq(reqs, IsMerged)
    IN  [k \in 1..Len(merged) |-> Payload(merged[k].ip, merged[k].kind)]

\* C2: a run with budget num_ips issues at most num_ips lookups, no address
\* twice, and none for an address that the cache file already holds.
C2_LookupsWithinBudget ==
    [][RunStep =>
          /\ Len(lookups') <= last'.args[1]
          /\ \A i, j \in 1..Len(lookups') : i # j => lookups'[i].ip # lookups'[j].ip
          /\ LookedUp(lookups') \cap Queries(LoadCache(ip_info_csv)) = {}
      ]_vars

\* A run that the budget ended: lookups were issued, none was rate-limited,
\* and an address of the table is still neither cached nor asked for.
C2_Witness ==
    /\ Ran
    /\ lookups # <<>>
    /\ "ratelimit" \notin KindsOf(lookups)
    /\ \E addr \in TableIps(df) : addr \notin Queries(ip) /\ addr \notin LookedUp(lookups)

\* C3: in a run where a lookup is answered 429, that lookup is the last one of
\* the run, the table holds the entries loaded from the file followed by the
\* entries fetched before it, the table is written to the file, and the call
\* returns without raising.
C3_RateLimitStopsRun ==
    [][(RunStep /\ "ratelimit" \in KindsOf(lookups')) =>
          /\ \A i \in 1..Len(lookups') :
                lookups'[i].kind = "ratelimit" => i = Len(lookups')
          /\ ip' = LoadCache(ip_info_csv) \o EntriesOf(lookups')
          /\ ip_info_csv' = write_csv(ip')
          /\ last'.exc = "none"
      ]_vars

\* A 429 after a lookup that had succeeded, with an address left unasked.
C3_Witness ==
    /\ Ran
    /\ Len(lookups) >= 2
    /\ lookups[1].kind = "success"
    /\ lookups[Len(lookups)].kind = "ratelimit"
    /\ \E addr \in TableIps(df) : addr \notin Queries(ip) /\ addr \notin LookedUp(lookups)

\* C4: get_ip_info on a table that has the geo columns changes neither the
\* table nor the cache table nor the cache file, and issues no lookup.
C4_EnrichmentIdempotent ==
    [][(last'.op = "get_ip_info" /\ df.cols = "geo") =>
          /\ df' = df
          /\ ip' = ip
          /\ ip_info_csv' = ip_info_csv
          /\ lookups' = <<>>
          /\ last'.note # "run"
      ]_vars

\* A second call on an enriched table for which a run would have had an
\* address to look up.
C4_Witness ==
    /\ last.op = "get_ip_info"
    /\ last.note = "guard"
    /\ df.cols = "geo"
    /\ \E addr \in TableIps(df) : addr \notin Queries(ip)

\* C10: in a run where a payload is refused by the merge, the address is not
\* added to the table and the entries before it stay as they were (the table
\* is the entries of the file followed by those of the payloads that did
\* merge); the run goes on: unless a 429 or the budget ends it, every address
\* of the table is cached or has been asked for; and the table is written to
\* the file.
C10_MergeErrorSkipsOneIp ==
    [][(RunStep /\ "mismatch" \in KindsOf(lookups')) =>
          /\ ip' = LoadCache(ip_info_csv) \o EntriesOf(lookups')
          /\ \A i \in 1..Len(lookups') :
                lookups'[i].kind = "mismatch" => lookups'[i].ip \notin Queries(ip')
          /\ ("ratelimit" \notin KindsOf(lookups') /\ Len(lookups') < last'.args[1]) =>
                TableIps(df) \subseteq Queries(LoadCache(ip_info_csv)) \cup LookedUp(lookups')
          /\ ip_info_csv' = write_csv(ip')
          /\ last'.exc = "none"
      ]_vars

\* A refused payload followed by a lookup that merged, in a run that began
\* with an entry for another address of the table in the cache file.
C10_Witness ==
    /\ Ran
    /\ \E i, j \in 1..Len(lookups) :
          /\ i < j
          /\ lookups[i].kind = "mismatch"
          /\ lookups[j].kind = "success"
    /\ \E addr \in TableIps(df) : addr \in Queries(ip) /\ addr \notin LookedUp(lookups)

----------------------------------------------------------------------------
(* The export session: a parser that has loaded and enriched its logs.     *)

SampleRows == {ApacheRow(A1), ApacheRow(A2), ApacheRow(A3), NginxRow(N1)}

KnownCache == BlankCache \o <<GeoOf(IPA), GeoOf(IPB)>>

InitAnon ==
    /\ \E S \in SUBSET SampleRows : \E loaded \in Arrangements(S) :
          /\ unfiltered_df = [cols |-> "base", rows |-> loaded]
          /\ \E joined \in Sort(Join(loaded, KnownCache)) :
                df = [cols |-> "geo", rows |-> joined]
    /\ original_total_requests = Len(unfiltered_df.rows)
    /\ filter_name = "None"
    /\ ip = KnownCache
    /\ ip_info_csv = write_csv(KnownCache)
    /\ anonymized = <<>>
    /\ location = {}
    /\ last = Call("get_ip_info", <<0>>, "none", "run")
    /\ checkpoint = unfiltered_df
    /\ lookups = <<>>

NextAnon == anonymize_requests \/ filter_organisations \/ undo_filter

SpecAnon == InitAnon /\ [][NextAnon]_vars

Anonymized == last.op = "anonymize_requests" /\ last.exc = "none"

\* C6: after anonymize_requests, two rows of the anonymized table have the
\* same ip index exactly when the rows they come from have the same address.
C6_AnonymizedIpInjective ==
    Anonymized =>
        /\ Len(anonymized) = Len(df.rows)
        /\ \A i, j \in 1..Len(df.rows) :
              (anonymized[i].ip = anonymized[j].ip) <=> (df.rows[i].ip = df.rows[j].ip)

\* An anonymized table of three addresses, one of them on two rows.
C6_Witness ==
    /\ Anonymized
    /\ Cardinality(TableIps(df)) = 3
    /\ \E i, j \in 1..Len(df.rows) : i # j /\ df.rows[i].ip = df.rows[j].ip

----------------------------------------------------------------------------
(* The derivation session: an enriched table of one generated url, alone   *)
(* or beside the sample data request.                                      *)

MaxSegments == 4

SegmentValues == {
    <<>>, <<"erddap">>, <<"tabledap">>, <<"info">>, <<"ds1">>,
    <<"index", ".", "html">>}

QueryValues == {<<>>, <<"?", "time">>}

RECURSIVE JoinSlash(_)
JoinSlash(segments) ==
    IF Len(segments) = 1 THEN segments[1]
    ELSE segments[1] \o <<"/">> \o JoinSlash(Tail(segments))

GeneratedUrls ==
    {JoinSlash(segments) \o query :
        segments \in UNION {[1..n -> SegmentValues] : n \in 1..MaxSegments},
        query \in QueryValues}

GeoRow(i, t, u, a, s) ==
    [Row(i, t, u, a, s) EXCEPT !.country = Null, !.org = Null, !.isp = Null]

InitParse ==
    /\ \E u \in GeneratedUrls :
          \E rows \in {<<GeoRow(IPB, 1, u, UABot, 200)>>,
                       <<GeoRow(IPB, 1, u, UABot, 200),
                         GeoRow(IPA, 2, UrlData, UABrowser, 200)>>} :
             /\ df = [cols |-> "geo", rows |-> rows]
             /\ unfiltered_df = [cols |-> "base",
                                 rows |-> [i \in 1..Len(rows) |->
                                             Row(rows[i].ip, rows[i].datetime, rows[i].url,
                                                 rows[i].user_agent, rows[i].status_code)]]
    /\ original_total_requests = Len(unfiltered_df.rows)
    /\ filter_name = "None"
    /\ ip = BlankCache
    /\ ip_info_csv = write_csv(BlankCache)
    /\ anonymized = <<>>
    /\ location = {}
    /\ last = Call("get_ip_info", <<0>>, "none", "run")
    /\ checkpoint = unfiltered_df
    /\ lookups = <<>>

NextParse == parse_columns

SpecParse == InitParse /\ [][NextParse]_vars

Parsed == last.op = "parse_columns" /\ last.exc = "none"

\* C7: for every url that parse_columns has processed, erddap_request_type is
\* non-null exactly when the third path segment is one of tabledap, griddap,
\* files, info, and dataset_id is null whenever erddap_request_type is null.
C7_RequestTypeAndDatasetId ==
    Parsed =>
        \A i \in 1..Len(df.rows) :
            LET row == df.rows[i]
            IN  /\ (row.erddap_request_type # Null)
                      <=> (Piece(Split(row.base_url, "/"), 2) \in Protocols)
                /\ (row.erddap_request_type = Null) => (row.dataset_id = Null)

====
